---- MODULE Spec2Model ----
(***************************************************************************)
(* Model of backend/main.py: the /api/summarize handler (LLM call, JSON    *)
(* extraction, coercion, schema validation, one retry, persistence) and    *)
(* the /api/transcribe handler (upload checks, Whisper, best-effort        *)
(* conversation save), over an external store and an external LLM; the     *)
(* text level of extract_json_from_response, the SOAP coercion step on     *)
(* its own, and POST /api/doctors served by several processes.             *)
(***************************************************************************)
EXTENDS Integers, Sequences, FiniteSets, TLC

\* ------------------------------------------------------------------ bounds
NumReqs == 2            \* request slots of the concurrent specification
MaxMeds == 2            \* longest medications list an LLM reply carries
MaxTranscriptLen == 1   \* longest transcript of a request (characters)
MaxUploads == 2         \* uploads handled one after the other by /api/transcribe
MaxTextLen == 5         \* longest raw LLM text given to the extractor (tokens)
NumDoctorReqs == 3      \* POST /api/doctors requests

Reqs == 1..NumReqs

DoctorReqs == 1..NumDoctorReqs

\* ------------------------------------------------------- JSON-ish values
\* A JSON value of an LLM reply: its Python type after json.loads and a text.
Absent == [t |-> "absent", v |-> ""]
Str(s) == [t |-> "str", v |-> s]
Num(s) == [t |-> "num", v |-> s]
Dict(s) == [t |-> "dict", v |-> s]
List(s) == [t |-> "list", v |-> s]
Null == [t |-> "null", v |-> ""]

\* str(x) of a dict or list: the Python rendering, as a string.
PyStr(x) == Str(x.v)

\* 'key' in note_json
Has(obj, key) == obj[key].t # "absent"

\* isinstance(value, (dict, list)); note_json.get(key) is None for a missing key
IsDictOrList(x) == x.t \in {"dict", "list"}

\* ------------------------------------------------------------ exceptions
\* Python exception classes the handler's except clauses tell apart.
\* json.JSONDecodeError and pydantic's ValidationError both derive from
\* ValueError; "Exception" stands for any other class (TypeError, the store
\* client's APIError, ...).
StoreExceptions == {"ValueError", "Exception"}

IsValueErrorNoValidation(exc) == exc \in {"JSONDecodeError", "ValueError"}

\* except (json.JSONDecodeError, ValueError) as e: pydantic's ValidationError is
\* a ValueError, so the clause catches it too
IsValueError(exc) == exc \in {"JSONDecodeError", "ValueError", "ValidationError"}

\* ---------------------------------------------------------------- schemas
SoapTextFields ==
    {"conversation_summary", "subjective", "objective", "assessment", "plan", "key_insights"}

SoapCoercedFields == {"subjective", "objective", "assessment", "plan"}

SoapKeys == SoapTextFields \cup {"admin_tasks", "patient_id", "doctor_id", "visit_type"}

MedRequired == {"name", "dose", "route", "frequency", "duration"}

MedKeys == MedRequired \cup {"instructions"}

PrescTextFields == {"chief_complaint", "diagnosis", "instructions", "follow_up"}

PrescListFields == {"symptoms", "warnings"}

PrescScalarKeys ==
    {"patient_name", "patient_id", "vital_signs"} \cup PrescTextFields \cup PrescListFields

\* the keys the two schema prompts show in their JSON structure
SoapPromptFields == SoapTextFields \cup {"admin_tasks"}

PrescPromptFields == PrescTextFields \cup PrescListFields \cup {"vital_signs", "medications"}

\* Medication(**med): five required strings, instructions defaults to "".
MedicationValid(med) ==
    /\ \A k \in MedRequired : med[k].t = "str"
    /\ med["instructions"].t \in {"str", "absent"}

MedicationDump(med) == [k \in MedKeys |-> med[k].v]

\* SOAPNote(**note_json): six required strings, admin_tasks: list[str] = [];
\* keys the model does not declare (patient_id, ...) are ignored.
SOAPNoteValid(obj) ==
    /\ \A k \in SoapTextFields : obj[k].t = "str"
    /\ obj["admin_tasks"].t \in {"list", "absent"}

\* validated_note.model_dump()
SOAPNoteDump(obj) ==
    [k \in SoapPromptFields |->
        IF k = "admin_tasks" /\ obj[k].t = "absent" THEN "[]" ELSE obj[k].v]

\* PrescriptionNote(**note_json): patient_name, patient_id and medications are
\* required, every other field has a default.
PrescriptionNoteValid(obj) ==
    /\ obj["patient_name"].t = "str"
    /\ obj["patient_id"].t = "str"
    /\ \A k \in PrescTextFields : obj[k].t \in {"str", "absent"}
    /\ \A k \in PrescListFields : obj[k].t \in {"list", "absent"}
    /\ obj["vital_signs"].t \in {"dict", "absent"}
    /\ obj["medications"].t = "list"
    /\ \A i \in 1..Len(obj["medications"].items) : MedicationValid(obj["medications"].items[i])

PrescDefault(k) ==
    IF k \in PrescListFields THEN "[]" ELSE IF k = "vital_signs" THEN "{}" ELSE ""

PrescriptionNoteDump(obj) ==
    [k \in PrescScalarKeys \cup {"medications"} |->
        IF k = "medications"
        THEN [i \in 1..Len(obj[k].items) |-> MedicationDump(obj[k].items[i])]
        ELSE IF obj[k].t = "absent" THEN PrescDefault(k) ELSE obj[k].v]

\* ------------------------------------------------------------- coercion
SoapCoerceRepr(obj, request) ==
    [k \in SoapKeys |->
        IF k \in {"patient_id", "doctor_id", "visit_type"}
        THEN (IF Has(obj, k) THEN obj[k] ELSE Str(request[k]))
        ELSE IF k \in SoapCoercedFields /\ Has(obj, k) THEN Str("'" \o obj[k].v \o "'")
        ELSE obj[k]]

\* lines 674-689: backfill the identifiers, stringify nested SOAP sections
SoapCoerce(obj, request) ==
    [k \in SoapKeys |->
        IF k \in {"patient_id", "doctor_id", "visit_type"}
        THEN (IF Has(obj, k) THEN obj[k] ELSE Str(request[k]))
        ELSE IF k \in SoapCoercedFields /\ IsDictOrList(obj[k]) THEN PyStr(obj[k])
        ELSE obj[k]]

\* lines 716-717: the caller's patient_name and patient_id overwrite the model's
PrescInject(obj, request) ==
    [obj EXCEPT !["patient_name"] = Str(request.patient_name),
                !["patient_id"] = Str(request.patient_id)]

\* ------------------------------------------------------------- requests
None == <<>>
Some(x) == <<x>>

Chars == {" ", "a"}

Whitespace == {" "}

Transcripts == UNION {[1..n -> Chars] : n \in 0..MaxTranscriptLen}

RECURSIVE LStrip(_)
LStrip(s) == IF s # <<>> /\ Head(s) \in Whitespace THEN LStrip(Tail(s)) ELSE s

RECURSIVE RStrip(_)
RStrip(s) ==
    IF s # <<>> /\ s[Len(s)] \in Whitespace THEN RStrip(SubSeq(s, 1, Len(s) - 1)) ELSE s

\* str.strip()
Strip(s) == RStrip(LStrip(s))

NoteTypes == {"soap", "prescription"}

VisitTypes == {"new", "followup", "repeat"}

\* SummarizeRequest bodies; conversation_id "null" is the Optional's None
SummarizeRequests ==
    [transcript : Transcripts,
     note_type : NoteTypes \cup {"referral"},
     visit_type : VisitTypes \cup {"walkin"},
     patient_name : {"Ann"},
     patient_id : {"p1"},
     doctor_id : {"d1"},
     conversation_id : {"null", "c1"}]

\* the requests of the concurrent specification: valid ones of either type
ConcurrentRequests ==
    {q \in SummarizeRequests :
        /\ q.transcript = <<"a">>
        /\ q.note_type \in NoteTypes
        /\ q.visit_type = "new"
        /\ q.conversation_id = "c1"}

InputErrorNoStrip(req) ==
    IF req.transcript = <<>> THEN "Transcript cannot be empty"
    ELSE IF req.note_type \notin NoteTypes THEN "Note type must be 'soap' or 'prescription'"
    ELSE IF req.visit_type \notin VisitTypes
    THEN "Visit type must be 'new', 'followup', or 'repeat'"
    ELSE ""

\* lines 508-515: the detail of the 400 response, or "" for a request that passes
InputError(req) ==
    IF Strip(req.transcript) = <<>> THEN "Transcript cannot be empty"
    ELSE IF req.note_type \notin NoteTypes THEN "Note type must be 'soap' or 'prescription'"
    ELSE IF req.visit_type \notin VisitTypes
    THEN "Visit type must be 'new', 'followup', or 'repeat'"
    ELSE ""

\* ------------------------------------------------------------ LLM replies
SoapFull ==
    [k \in SoapKeys |->
        IF k \in SoapTextFields THEN Str(k)
        ELSE IF k = "admin_tasks" THEN List("['call lab']")
        ELSE Absent]

SoapObjects ==
    {SoapFull,
     [SoapFull EXCEPT !["objective"] = Dict("{'bp': '120/80'}"), !["plan"] = List("['rest']")],
     [SoapFull EXCEPT !["key_insights"] = Absent],
     [SoapFull EXCEPT !["conversation_summary"] = Num("7")],
     [SoapFull EXCEPT !["admin_tasks"] = Absent],
     [SoapFull EXCEPT !["patient_id"] = Str("p-model"), !["doctor_id"] = Str("d-model"),
                      !["visit_type"] = Str("v-model")]}

GoodMed(i) == [k \in MedKeys |-> IF k = "name" THEN Str("med" \o ToString(i)) ELSE Str(k)]

BadMed(i) == [GoodMed(i) EXCEPT !["dose"] = Absent]

Meds(items) == [t |-> "list", items |-> items]

NoMeds == [t |-> "absent", items |-> <<>>]

PrescObject(meds) ==
    [k \in PrescScalarKeys \cup {"medications"} |->
        IF k = "medications" THEN meds
        ELSE IF k \in {"patient_name", "patient_id"} THEN Absent
        ELSE IF k \in PrescTextFields THEN Str(k)
        ELSE IF k \in PrescListFields THEN List("['" \o k \o "']")
        ELSE Dict("{'heart_rate': '72 bpm'}")]

\* the prompt's structure with n well-formed medications
PrescFull(n) == PrescObject(Meds([i \in 1..n |-> GoodMed(i)]))

\* the same object with patient_name and patient_id written by the model
PrescWithIds(n) ==
    [PrescFull(n) EXCEPT !["patient_name"] = Str("n-model"), !["patient_id"] = Str("p-model")]

PrescObjects(maxMeds) ==
    {PrescFull(n) : n \in 0..maxMeds}
    \cup {PrescWithIds(n) : n \in 0..maxMeds}
    \cup {PrescObject(Meds([i \in 1..n |-> IF i = n THEN BadMed(i) ELSE GoodMed(i)])) :
            n \in 1..maxMeds}
    \cup {PrescObject(NoMeds)}

Failure(kind) == [kind |-> kind, obj |-> None]

Object(o) == [kind |-> "object", obj |-> Some(o)]

\* what one call_ollama can come back with: a transport failure, text with no
\* JSON in it, text that is JSON but no object, text holding a JSON object
NonObjectKinds == {"array", "number"}

Replies(note_type) ==
    {Failure(k) : k \in {"timeout", "http_error", "garbage"} \cup NonObjectKinds}
    \cup {Object(o) : o \in IF note_type = "soap" THEN SoapObjects ELSE PrescObjects(MaxMeds)}

\* the replies of the concurrent specification: one valid note per type, the
\* prescription with the longest medications list
ConcurrentReplies(note_type) ==
    {Object(IF note_type = "soap" THEN SoapFull ELSE PrescFull(MaxMeds))}

\* -------------------------------------------------- the note pipeline
Raised(exc) == [exc |-> exc, note |-> None]

Validated(note) == [exc |-> "", note |-> Some(note)]

\* extract_json_from_response: the exception it raises, "" when it returns
ExtractJsonError(reply) == IF reply.kind = "garbage" THEN "ValueError" ELSE ""

SoapValidate(obj, request) ==
    LET c == SoapCoerce(obj, request)
    IN  IF SOAPNoteValid(c) THEN Validated(SOAPNoteDump(c)) ELSE Raised("ValidationError")

PrescValidate(obj) ==
    IF PrescriptionNoteValid(obj) THEN Validated(PrescriptionNoteDump(obj))
    ELSE Raised("ValidationError")

\* lines 666-692 and 716-720: extraction, coercion and validation of the first
\* reply; indexing a value that is no dict raises TypeError
ProcessFirst(reply, request) ==
    IF ExtractJsonError(reply) # "" THEN Raised(ExtractJsonError(reply))
    ELSE IF reply.kind # "object" THEN Raised("TypeError")
    ELSE IF request.note_type = "soap" THEN SoapValidate(reply.obj[1], request)
    ELSE PrescValidate(PrescInject(reply.obj[1], request))

\* lines 765-789: the same for the retry reply; the prescription branch
\* validates the reply as it is
ProcessRetry(reply, request) ==
    IF ExtractJsonError(reply) # "" THEN Raised(ExtractJsonError(reply))
    ELSE IF reply.kind # "object" THEN Raised("TypeError")
    ELSE IF request.note_type = "soap" THEN SoapValidate(reply.obj[1], request)
    ELSE PrescValidate(reply.obj[1])

\* what a reply did to the attempt that received it (history only)
Outcome(reply, result) ==
    IF reply.kind \in {"timeout", "http_error"} THEN "transport_error"
    ELSE IF result.exc = "" THEN "valid"
    ELSE IF ExtractJsonError(reply) # "" THEN "extraction_error"
    ELSE IF result.exc = "ValidationError" THEN "schema_error"
    ELSE "type_error"

\* ------------------------------------------------------------ responses
Error(status, detail) ==
    [status |-> status, detail |-> detail, note |-> None, id |-> None, note_type |-> ""]

\* return {**note_data, "id": ..., "note_type": ...}
Saved(note, id, note_type) ==
    [status |-> 200, detail |-> "", note |-> Some(note), id |-> Some(id),
     note_type |-> note_type]

\* return validated_note.model_dump()
Unsaved(note) ==
    [status |-> 200, detail |-> "", note |-> Some(note), id |-> None, note_type |-> ""]

TransportErrorRewritten(reply) ==
    [status |-> 500, detail |-> "Internal server error during note generation",
     note |-> None, id |-> None, note_type |-> ""]

\* call_ollama, lines 105-113; the handler's "except HTTPException: raise"
\* (lines 798-799) passes the response on as it is
TransportError(reply) ==
    IF reply.kind = "timeout" THEN Error(504, "AI service timed out. Please try again.")
    ELSE Error(500, "AI service error")

GenerationFailed == Error(500, "AI failed to generate valid note. Please try again.")

SchemaMismatch == Error(500, "Generated note doesn't match required format.")

InternalError == Error(500, "Internal server error during note generation")

\* lines 755, 794 and 798-802: where an exception raised in the first attempt's
\* try block (lines 665-753) takes the handler
FirstAttemptCatch(exc) ==
    IF IsValueError(exc) THEN [pc |-> "retry", response |-> None]
    ELSE IF exc = "ValidationError" THEN [pc |-> "done", response |-> Some(SchemaMismatch)]
    ELSE [pc |-> "done", response |-> Some(InternalError)]

\* ---------------------------------------------------------------- state
VARIABLES
    pc,               \* per request: where its handler stands
    request,          \* per request: the SummarizeRequest, None before it arrives
    note_data,        \* per request: validated_note.model_dump() of the first attempt
    prescription_id,  \* per request: the id the prescriptions insert returned
    med_count,        \* per request: medications of note_data inserted so far
    response,         \* per request: the HTTP response, None until it is sent
    replies,          \* per request: what its call_ollama calls came back with
    outcomes,         \* per request: what each reply did to its attempt
    writes,           \* per request: the inserts it issued, failed ones included
    soap_notes,       \* store table
    prescriptions,    \* store table
    medications,      \* store table
    conversations,    \* store table
    t_pc,             \* /api/transcribe: where the handler stands
    upload,           \* /api/transcribe: the upload being handled, None before the first
    t_steps,          \* /api/transcribe: side effects of the current upload, in order
    t_response,       \* /api/transcribe: the HTTP response, None until it is sent
    transcript_text,  \* /api/transcribe: the stripped Whisper text
    whisper_model,    \* the module-level Whisper handle: "None" or "loaded"
    temp_files,       \* temp files on disk
    uploads,          \* uploads received so far
    raw_text,         \* extractor: the text argument of extract_json_from_response
    extracted,        \* extractor: what the call returned or raised, None before it
    draft,            \* coercion: the JSON object of the reply (response_data)
    draft_request,    \* coercion: the request whose identifiers are backfilled
    coerced,          \* coercion: response_data after each application of the step
    doctors,          \* store table
    d_pc,             \* /api/doctors, per request: where its handler stands
    d_request,        \* /api/doctors, per request: the DoctorCreate body
    d_worker,         \* /api/doctors, per request: the server process that serves it
    existing,         \* /api/doctors, per request: ids the select returned
    d_response        \* /api/doctors, per request: the HTTP response

handlerVars == <<pc, request, note_data, prescription_id, med_count, response, replies,
                 outcomes, writes>>

storeVars == <<soap_notes, prescriptions, medications>>

transcribeVars == <<conversations, t_pc, upload, t_steps, t_response, transcript_text,
                    whisper_model, temp_files, uploads>>

extractVars == <<raw_text, extracted>>

coerceVars == <<draft, draft_request, coerced>>

doctorVars == <<doctors, d_pc, d_request, d_worker, existing, d_response>>

otherVars == <<extractVars, coerceVars, doctorVars>>

vars == <<handlerVars, storeVars, transcribeVars, otherVars>>

\* ---------------------------------------------------------------- store
\* insert(...).execute() returns the row with the id the store generated
NewId(table) == Len(table) + 1

\* lines 695-707
SoapRow(id, req, note) ==
    [id |-> id, patient_id |-> req.patient_id, doctor_id |-> req.doctor_id,
     conversation_id |-> req.conversation_id, visit_type |-> req.visit_type,
     conversation_summary |-> note["conversation_summary"],
     subjective |-> note["subjective"], objective |-> note["objective"],
     assessment |-> note["assessment"], plan |-> note["plan"],
     key_insights |-> note["key_insights"], admin_tasks |-> note["admin_tasks"]]

\* lines 723-734
PrescriptionRow(id, req, note) ==
    [id |-> id, patient_id |-> req.patient_id, doctor_id |-> req.doctor_id,
     conversation_id |-> req.conversation_id,
     chief_complaint |-> note["chief_complaint"], symptoms |-> note["symptoms"],
     diagnosis |-> note["diagnosis"], vital_signs |-> note["vital_signs"],
     instructions |-> note["instructions"], warnings |-> note["warnings"],
     follow_up |-> note["follow_up"]]

\* lines 741-749
MedicationRow(id, presc_id, med) ==
    [id |-> id, prescription_id |-> presc_id, name |-> med["name"], dose |-> med["dose"],
     route |-> med["route"], frequency |-> med["frequency"], duration |-> med["duration"],
     instructions |-> med["instructions"]]

\* one entry of a request's write log
Write(table, ok, id, presc_id) ==
    [table |-> table, ok |-> ok, id |-> id, prescription_id |-> presc_id]

HandlersInit ==
    /\ pc = [r \in Reqs |-> "idle"]
    /\ request = [r \in Reqs |-> None]
    /\ note_data = [r \in Reqs |-> None]
    /\ prescription_id = [r \in Reqs |-> None]
    /\ med_count = [r \in Reqs |-> 0]
    /\ response = [r \in Reqs |-> None]
    /\ replies = [r \in Reqs |-> <<>>]
    /\ outcomes = [r \in Reqs |-> <<>>]
    /\ writes = [r \in Reqs |-> <<>>]
    /\ soap_notes = <<>>
    /\ prescriptions = <<>>
    /\ medications = <<>>
    /\ conversations = <<>>
    /\ t_pc = "idle"
    /\ upload = None
    /\ t_steps = <<>>
    /\ t_response = None
    /\ transcript_text = <<>>
    /\ whisper_model = "None"
    /\ temp_files = 0
    /\ uploads = 0
    /\ doctors = <<>>
    /\ d_pc = [r \in DoctorReqs |-> "idle"]
    /\ d_request = [r \in DoctorReqs |-> None]
    /\ d_worker = [r \in DoctorReqs |-> ""]
    /\ existing = [r \in DoctorReqs |-> None]
    /\ d_response = [r \in DoctorReqs |-> None]

\* no text is being extracted
ExtractIdle ==
    /\ raw_text = <<>>
    /\ extracted = None

\* no draft is being coerced
CoerceIdle ==
    /\ draft = SoapFull
    /\ draft_request = None
    /\ coerced = <<>>

Init == HandlersInit /\ ExtractIdle /\ CoerceIdle

\* ------------------------------------------------- /api/summarize handler
\* lines 503-515: the request arrives and its three input checks run
Summarize(r, req) ==
    /\ pc[r] = "idle"
    /\ request' = [request EXCEPT ![r] = Some(req)]
    /\ IF InputError(req) # ""
       THEN /\ pc' = [pc EXCEPT ![r] = "done"]
            /\ response' = [response EXCEPT ![r] = Some(Error(400, InputError(req)))]
       ELSE /\ pc' = [pc EXCEPT ![r] = "drafting"]
            /\ UNCHANGED response
    /\ UNCHANGED <<note_data, prescription_id, med_count, replies, outcomes, writes>>
    /\ UNCHANGED <<storeVars, transcribeVars, otherVars>>

\* after a validated first attempt: the branch of line 672
PersistPc(note_type) == IF note_type = "soap" THEN "insert_soap" ELSE "insert_prescription"

\* lines 661-692 and 714-720: the first call_ollama and what the handler does
\* with its reply up to the validated note
Draft(r, reply) ==
    /\ pc[r] = "drafting"
    /\ LET req == request[r][1]
           result == ProcessFirst(reply, req)
       IN  /\ replies' = [replies EXCEPT ![r] = Append(@, reply)]
           /\ outcomes' = [outcomes EXCEPT ![r] = Append(@, Outcome(reply, result))]
           /\ IF reply.kind \in {"timeout", "http_error"}
              THEN /\ pc' = [pc EXCEPT ![r] = "done"]
                   /\ response' = [response EXCEPT ![r] = Some(TransportError(reply))]
                   /\ UNCHANGED note_data
              ELSE IF result.exc = ""
              THEN /\ pc' = [pc EXCEPT ![r] = PersistPc(req.note_type)]
                   /\ note_data' = [note_data EXCEPT ![r] = result.note]
                   /\ UNCHANGED response
              ELSE /\ pc' = [pc EXCEPT ![r] = FirstAttemptCatch(result.exc).pc]
                   /\ response' = [response EXCEPT ![r] = FirstAttemptCatch(result.exc).response]
                   /\ UNCHANGED note_data
    /\ UNCHANGED <<request, prescription_id, med_count, writes>>
    /\ UNCHANGED <<storeVars, transcribeVars, otherVars>>

\* lines 695-712: the soap_notes insert and the response built from it
InsertSoapNote(r, exc) ==
    /\ pc[r] = "insert_soap"
    /\ LET req == request[r][1]
           note == note_data[r][1]
           id == NewId(soap_notes)
       IN  IF exc = ""
           THEN /\ soap_notes' = Append(soap_notes, SoapRow(id, req, note))
                /\ writes' = [writes EXCEPT ![r] = Append(@, Write("soap_notes", TRUE, Some(id), None))]
                /\ pc' = [pc EXCEPT ![r] = "done"]
                /\ response' = [response EXCEPT ![r] = Some(Saved(note, id, "soap"))]
           ELSE /\ UNCHANGED soap_notes
                /\ writes' = [writes EXCEPT ![r] = Append(@, Write("soap_notes", FALSE, None, None))]
                /\ pc' = [pc EXCEPT ![r] = FirstAttemptCatch(exc).pc]
                /\ response' = [response EXCEPT ![r] = FirstAttemptCatch(exc).response]
    /\ UNCHANGED <<request, note_data, prescription_id, med_count, replies, outcomes>>
    /\ UNCHANGED <<prescriptions, medications, transcribeVars, otherVars>>

\* lines 723-737 (and 751-753 when the note has no medications)
InsertPrescription(r, exc) ==
    /\ pc[r] = "insert_prescription"
    /\ LET req == request[r][1]
           note == note_data[r][1]
           id == NewId(prescriptions)
       IN  IF exc = ""
           THEN /\ prescriptions' = Append(prescriptions, PrescriptionRow(id, req, note))
                /\ writes' = [writes EXCEPT ![r] = Append(@, Write("prescriptions", TRUE, Some(id), None))]
                /\ prescription_id' = [prescription_id EXCEPT ![r] = Some(id)]
                /\ IF Len(note["medications"]) = 0
                   THEN /\ pc' = [pc EXCEPT ![r] = "done"]
                        /\ response' = [response EXCEPT ![r] = Some(Saved(note, id, "prescription"))]
                   ELSE /\ pc' = [pc EXCEPT ![r] = "insert_medications"]
                        /\ UNCHANGED response
           ELSE /\ UNCHANGED <<prescriptions, prescription_id>>
                /\ writes' = [writes EXCEPT ![r] = Append(@, Write("prescriptions", FALSE, None, None))]
                /\ pc' = [pc EXCEPT ![r] = FirstAttemptCatch(exc).pc]
                /\ response' = [response EXCEPT ![r] = FirstAttemptCatch(exc).response]
    /\ UNCHANGED <<request, note_data, med_count, replies, outcomes>>
    /\ UNCHANGED <<soap_notes, medications, transcribeVars, otherVars>>

MedicationParentUnsaved(r) == NewId(prescriptions)

\* the prescription_id a medications insert of request r carries (lines 736, 742)
MedicationParent(r) == prescription_id[r][1]

NextMedicationReversed(r) ==
    note_data[r][1]["medications"][Len(note_data[r][1]["medications"]) - med_count[r]]

\* the entry the medications loop has reached (line 740)
NextMedication(r) == note_data[r][1]["medications"][med_count[r] + 1]

\* lines 740-753: one pass of the medications loop, and the return after the last
InsertMedication(r, exc) ==
    /\ pc[r] = "insert_medications"
    /\ LET note == note_data[r][1]
           med == NextMedication(r)
           id == NewId(medications)
           parent == MedicationParent(r)
       IN  IF exc = ""
           THEN /\ medications' = Append(medications, MedicationRow(id, parent, med))
                /\ writes' = [writes EXCEPT ![r] = Append(@, Write("medications", TRUE, Some(id), Some(parent)))]
                /\ med_count' = [med_count EXCEPT ![r] = @ + 1]
                /\ IF med_count[r] + 1 = Len(note["medications"])
                   THEN /\ pc' = [pc EXCEPT ![r] = "done"]
                        /\ response' = [response EXCEPT ![r] =
                                Some(Saved(note, prescription_id[r][1], "prescription"))]
                   ELSE UNCHANGED <<pc, response>>
           ELSE /\ UNCHANGED <<medications, med_count>>
                /\ writes' = [writes EXCEPT ![r] = Append(@, Write("medications", FALSE, None, Some(parent)))]
                /\ pc' = [pc EXCEPT ![r] = FirstAttemptCatch(exc).pc]
                /\ response' = [response EXCEPT ![r] = FirstAttemptCatch(exc).response]
    /\ UNCHANGED <<request, note_data, prescription_id, replies, outcomes>>
    /\ UNCHANGED <<soap_notes, prescriptions, transcribeVars, otherVars>>

RetryCatchRetriesAgain(exc) == [pc |-> "retry", response |-> None]

\* lines 790-792: the retry's own except clause catches every exception and ends
\* the request
RetryCatch(exc) == [pc |-> "done", response |-> Some(GenerationFailed)]

\* lines 755-792: the retry call_ollama and what the handler does with its reply
Retry(r, reply) ==
    /\ pc[r] = "retry"
    /\ LET req == request[r][1]
           result == ProcessRetry(reply, req)
       IN  /\ replies' = [replies EXCEPT ![r] = Append(@, reply)]
           /\ outcomes' = [outcomes EXCEPT ![r] = Append(@, Outcome(reply, result))]
           /\ IF reply.kind \in {"timeout", "http_error"}
              THEN /\ pc' = [pc EXCEPT ![r] = "done"]
                   /\ response' = [response EXCEPT ![r] = Some(TransportError(reply))]
              ELSE IF result.exc = ""
              THEN /\ pc' = [pc EXCEPT ![r] = "done"]
                   /\ response' = [response EXCEPT ![r] = Some(Unsaved(result.note[1]))]
              ELSE /\ pc' = [pc EXCEPT ![r] = RetryCatch(result.exc).pc]
                   /\ response' = [response EXCEPT ![r] = RetryCatch(result.exc).response]
    /\ UNCHANGED <<request, note_data, prescription_id, med_count, writes>>
    /\ UNCHANGED <<storeVars, transcribeVars, otherVars>>

\* ------------------------------------------------ /api/transcribe handler
\* line 416
MAX_FILE_SIZE == 25 * 1024 * 1024

\* line 422
allowed_types ==
    {"audio/webm", "audio/mp4", "audio/mpeg", "audio/wav", "audio/x-wav", "audio/ogg",
     "video/webm"}

UploadSizes == {1, MAX_FILE_SIZE - 1, MAX_FILE_SIZE, MAX_FILE_SIZE + 1, 26 * 1024 * 1024}

\* patient_id and doctor_id are Form(None): "null" is None, "" an empty field
Uploads ==
    [size : UploadSizes,
     content_type : {"audio/webm", "audio/wav", "video/webm", "audio/flac", "text/plain"},
     patient_id : {"null", "", "p1"},
     doctor_id : {"null", "d1"}]

\* Python truthiness of an optional form field
Truthy(field) == field \notin {"null", ""}

UploadErrorInclusive(u) ==
    IF u.size >= MAX_FILE_SIZE
    THEN Some([status |-> 413, detail |-> "Audio file too large. Maximum size is 25MB."])
    ELSE IF u.content_type \notin allowed_types
    THEN Some([status |-> 400, detail |-> "Unsupported audio format"])
    ELSE None

\* lines 418-424: the rejection of an upload, None for one that passes
UploadError(u) ==
    IF u.size > MAX_FILE_SIZE
    THEN Some([status |-> 413, detail |-> "Audio file too large. Maximum size is 25MB."])
    ELSE IF u.content_type \notin allowed_types
    THEN Some([status |-> 400, detail |-> "Unsupported audio format"])
    ELSE None

TError(status, detail) ==
    [status |-> status, detail |-> detail, transcript |-> <<>>, conversation_id |-> None]

\* lines 407-424: an upload arrives, is read, and its size and type are checked
TranscribeAudio(u) ==
    /\ t_pc \in {"idle", "done"}
    /\ uploads < MaxUploads
    /\ uploads' = uploads + 1
    /\ upload' = Some(u)
    /\ t_steps' = <<>>
    /\ transcript_text' = <<>>
    /\ IF UploadError(u) # None
       THEN /\ t_pc' = "done"
            /\ t_response' = Some(TError(UploadError(u)[1].status, UploadError(u)[1].detail))
       ELSE /\ t_pc' = "checked"
            /\ t_response' = None
    /\ UNCHANGED <<conversations, whisper_model, temp_files>>
    /\ UNCHANGED <<handlerVars, storeVars, otherVars>>

\* lines 489-497: an exception inside the try block, and the finally clause
TranscribeFails ==
    /\ t_pc' = "done"
    /\ t_response' = Some(TError(500, "Transcription error"))
    /\ temp_files' = 0

\* lines 426-443: the upload is written to a named temp file
WriteTempFile(ok) ==
    /\ t_pc = "checked"
    /\ IF ok
       THEN /\ t_pc' = "saved"
            /\ temp_files' = temp_files + 1
            /\ t_steps' = Append(t_steps, "temp_file")
            /\ UNCHANGED t_response
       ELSE /\ TranscribeFails
            /\ UNCHANGED t_steps
    /\ UNCHANGED <<conversations, upload, transcript_text, whisper_model, uploads>>
    /\ UNCHANGED <<handlerVars, storeVars, otherVars>>

\* lines 447 and 70-82: get_whisper_model loads the model on first use
GetWhisperModel(ok) ==
    /\ t_pc = "saved"
    /\ IF whisper_model # "None"
       THEN /\ t_pc' = "model_ready"
            /\ UNCHANGED <<whisper_model, t_steps, t_response, temp_files>>
       ELSE IF ok
       THEN /\ t_pc' = "model_ready"
            /\ whisper_model' = "loaded"
            /\ t_steps' = Append(t_steps, "load_model")
            /\ UNCHANGED <<t_response, temp_files>>
       ELSE /\ TranscribeFails
            /\ UNCHANGED <<whisper_model, t_steps>>
    /\ UNCHANGED <<conversations, upload, transcript_text, uploads>>
    /\ UNCHANGED <<handlerVars, storeVars, otherVars>>

\* lines 449-462: Whisper runs; text is the joined segments, None an exception
Transcribe(text) ==
    /\ t_pc = "model_ready"
    /\ t_steps' = Append(t_steps, "transcribe")
    /\ IF text = None
       THEN /\ TranscribeFails
            /\ UNCHANGED transcript_text
       ELSE IF Strip(text[1]) = <<>>
       THEN /\ t_pc' = "done"
            /\ t_response' = Some(TError(400, "No speech detected in audio file."))
            /\ temp_files' = 0
            /\ UNCHANGED transcript_text
       ELSE /\ t_pc' = "transcribed"
            /\ transcript_text' = Strip(text[1])
            /\ UNCHANGED <<t_response, temp_files>>
    /\ UNCHANGED <<conversations, upload, whisper_model, uploads>>
    /\ UNCHANGED <<handlerVars, storeVars, otherVars>>

\* lines 469-474
ConversationRow(id, u, text) ==
    [id |-> id, patient_id |-> u.patient_id, doctor_id |-> u.doctor_id, transcript |-> text]

SaveConversationStrict(ok) ==
    /\ t_pc = "transcribed"
    /\ LET u == upload[1]
           id == NewId(conversations)
           wanted == Truthy(u.patient_id) /\ Truthy(u.doctor_id)
       IN  /\ conversations' =
                  IF wanted /\ ok THEN Append(conversations, ConversationRow(id, u, transcript_text))
                  ELSE conversations
           /\ t_steps' =
                  IF ~wanted THEN t_steps
                  ELSE IF ok THEN Append(t_steps, "insert_conversation")
                  ELSE t_steps \o <<"insert_conversation", "insert_conversation_failed">>
           /\ t_response' =
                  IF wanted /\ ~ok THEN Some(TError(500, "Transcription error"))
                  ELSE Some([status |-> 200, detail |-> "", transcript |-> transcript_text,
                             conversation_id |-> IF wanted THEN Some(id) ELSE None])
    /\ t_pc' = "done"
    /\ temp_files' = 0
    /\ UNCHANGED <<upload, transcript_text, whisper_model, uploads>>
    /\ UNCHANGED <<handlerVars, storeVars, otherVars>>

\* lines 464-485 and 492-497: the best-effort conversation insert, whose failure
\* is only logged (477-478), the success response and the temp file's removal
SaveConversation(ok) ==
    /\ t_pc = "transcribed"
    /\ LET u == upload[1]
           id == NewId(conversations)
           wanted == Truthy(u.patient_id) /\ Truthy(u.doctor_id)
       IN  /\ conversations' =
                  IF wanted /\ ok THEN Append(conversations, ConversationRow(id, u, transcript_text))
                  ELSE conversations
           /\ t_steps' =
                  IF ~wanted THEN t_steps
                  ELSE IF ok THEN Append(t_steps, "insert_conversation")
                  ELSE t_steps \o <<"insert_conversation", "insert_conversation_failed">>
           /\ t_response' =
                  Some([status |-> 200, detail |-> "", transcript |-> transcript_text,
                        conversation_id |-> IF wanted /\ ok THEN Some(id) ELSE None])
    /\ t_pc' = "done"
    /\ temp_files' = 0
    /\ UNCHANGED <<upload, transcript_text, whisper_model, uploads>>
    /\ UNCHANGED <<handlerVars, storeVars, otherVars>>

\* ------------------------------------- extract_json_from_response, on text
\* The raw text as a sequence of lexemes: the two braces, "k" for a member key
\* with its colon ("key":), "n" for a number literal, "w" for a word of prose,
\* "fence" for a code fence (three backticks) and "json" for the word after it.
\* Lexemes are separated by white space, which json.loads and both patterns
\* skip; only a "json" that follows a fence is written right after it.
Tokens == {"{", "}", "k", "n", "w", "fence", "json"}

Texts == UNION {[1..n -> Tokens] : n \in 0..MaxTextLen}

\* the Python values json.loads builds here: an int, or a dict of its members
JsonNumber == [t |-> "num", v |-> <<>>]

JsonObject(members) == [t |-> "dict", v |-> members]

\* json.loads(text): Some(value), or None for json.JSONDecodeError. A JSON text
\* is a number, or an object with no member or one member whose value is JSON.
RECURSIVE JsonLoads(_)
JsonLoads(text) ==
    IF text = <<"n">> THEN Some(JsonNumber)
    ELSE IF Len(text) >= 2 /\ text[1] = "{" /\ text[Len(text)] = "}"
    THEN IF Len(text) = 2 THEN Some(JsonObject(<<>>))
         ELSE IF Len(text) >= 4 /\ text[2] = "k"
         THEN LET member == JsonLoads(SubSeq(text, 3, Len(text) - 1))
              IN  IF member = None THEN None ELSE Some(JsonObject(member))
         ELSE None
    ELSE None

Positions(text, token) == {i \in 1..Len(text) : text[i] = token}

Min(S) == CHOOSE x \in S : \A y \in S : x <= y

Max(S) == CHOOSE x \in S : \A y \in S : x >= y

\* line 123, re.search(r'```(?:json)?\s*([\s\S]*?)\s*```', text): group 1 of the
\* leftmost match, from the first fence (and the "json" after it) up to the
\* next fence; None when the text has fewer than two fences
FencedBlock(text) ==
    LET fences == Positions(text, "fence")
    IN  IF Cardinality(fences) < 2 THEN None
        ELSE LET open == Min(fences)
                 close == Min(fences \ {open})
                 start == IF text[open + 1] = "json" THEN open + 2 ELSE open + 1
             IN  Some(SubSeq(text, start, close - 1))

\* line 130, re.search(r'\{[\s\S]*\}', text): the greedy match from the first
\* '{' to the last '}' after it; None when there is no such pair
BraceSpan(text) ==
    LET opens == Positions(text, "{")
    IN  IF opens = {} THEN None
        ELSE LET closes == {j \in Positions(text, "}") : j > Min(opens)}
             IN  IF closes = {} THEN None
                 ELSE Some(SubSeq(text, Min(opens), Max(closes)))

Returned(value) == [exc |-> "", value |-> Some(value)]

\* line 137
ExtractionError == [exc |-> "ValueError", value |-> None]

\* lines 116-137: the whole text, then the first fenced block, then the brace
\* span; each json.JSONDecodeError is swallowed, the last step raises ValueError
ExtractJson(text) ==
    IF JsonLoads(text) # None THEN Returned(JsonLoads(text)[1])
    ELSE LET block == FencedBlock(text)
         IN  IF block # None /\ JsonLoads(block[1]) # None
             THEN Returned(JsonLoads(block[1])[1])
             ELSE LET span == BraceSpan(text)
                  IN  IF span # None /\ JsonLoads(span[1]) # None
                      THEN Returned(JsonLoads(span[1])[1])
                      ELSE ExtractionError

\* any raw text comes back from the LLM
ExtractInit ==
    /\ HandlersInit
    /\ CoerceIdle
    /\ raw_text \in Texts
    /\ extracted = None

\* extract_json_from_response(raw_text) is called
ExtractJsonFromResponse ==
    /\ extracted = None
    /\ extracted' = Some(ExtractJson(raw_text))
    /\ UNCHANGED <<raw_text, coerceVars, doctorVars>>
    /\ UNCHANGED <<handlerVars, storeVars, transcribeVars>>

\* ------------------------------------------- the SOAP coercion step alone
\* what the model can put under one of the four stringified keys
CoerceValues == {Str("text"), Num("7"), Null, Absent, Dict("{'bp': '120/80'}"), List("['rest']")}

\* reply objects: any value under each of the four keys, the three
\* identifiers all present or all missing
CoerceDrafts ==
    {[k \in SoapKeys |->
        IF k \in SoapCoercedFields THEN f[k]
        ELSE IF k \in {"patient_id", "doctor_id", "visit_type"} THEN id
        ELSE SoapFull[k]] :
     f \in [SoapCoercedFields -> CoerceValues], id \in {Absent, Str("model")}}

\* a reply object has been extracted for a SOAP request
CoerceInit ==
    /\ HandlersInit
    /\ ExtractIdle
    /\ draft \in CoerceDrafts
    /\ draft_request \in {Some(q) : q \in {q \in ConcurrentRequests : q.note_type = "soap"}}
    /\ coerced = <<>>

\* lines 672-689 (766-783 in the retry) run on response_data, in place
Coerce ==
    /\ Len(coerced) < 2
    /\ coerced' = Append(coerced,
                         SoapCoerce(IF coerced = <<>> THEN draft ELSE coerced[Len(coerced)],
                                    draft_request[1]))
    /\ UNCHANGED <<draft, draft_request, extractVars, doctorVars>>
    /\ UNCHANGED <<handlerVars, storeVars, transcribeVars>>

\* ------------------------------------------------- POST /api/doctors
\* The server processes that serve the app against the one store. create_doctor
\* is a coroutine without an await, so the event loop of one process runs its
\* select and insert without serving another request in between; the store
\* does not coordinate the calls of different processes.
Workers == {"w1", "w2"}

\* DoctorCreate bodies (lines 220-226), optional fields left at None
DoctorCreates == [name : {"Ann", "Bob"}, email : {"a@x.org", "b@x.org"}]

SelectByName(table, doctor) ==
    {table[i].id : i \in {i \in 1..Len(table) : table[i].name = doctor.name}}

\* line 284: select('id').eq('email', doctor.email)
SelectByEmail(table, doctor) ==
    {table[i].id : i \in {i \in 1..Len(table) : table[i].email = doctor.email}}

\* lines 288-294
DoctorRow(id, doctor) == [id |-> id, name |-> doctor.name, email |-> doctor.email]

DoctorResponse(status, detail, id) == [status |-> status, detail |-> detail, id |-> id]

\* the event loop of process w is inside a create_doctor call
Busy(w) == \E q \in DoctorReqs : d_pc[q] = "checked" /\ d_worker[q] = w

\* lines 278-286: process w takes the request and runs the existence check;
\* an exception of the select ends in the 500 of lines 300-302
CreateDoctor(r, doctor, w, ok) ==
    /\ d_pc[r] = "idle"
    /\ r > 1 => d_pc[r - 1] # "idle"
    /\ ~Busy(w)
    /\ d_request' = [d_request EXCEPT ![r] = Some(doctor)]
    /\ d_worker' = [d_worker EXCEPT ![r] = w]
    /\ IF ~ok
       THEN /\ d_pc' = [d_pc EXCEPT ![r] = "done"]
            /\ d_response' = [d_response EXCEPT ![r] = Some(DoctorResponse(500, "str(e)", None))]
            /\ UNCHANGED existing
       ELSE /\ existing' = [existing EXCEPT ![r] = Some(SelectByEmail(doctors, doctor))]
            /\ IF SelectByEmail(doctors, doctor) # {}
               THEN /\ d_pc' = [d_pc EXCEPT ![r] = "done"]
                    /\ d_response' =
                           [d_response EXCEPT ![r] =
                               Some(DoctorResponse(400, "Doctor with this email already exists", None))]
               ELSE /\ d_pc' = [d_pc EXCEPT ![r] = "checked"]
                    /\ UNCHANGED d_response
    /\ UNCHANGED <<doctors, extractVars, coerceVars>>
    /\ UNCHANGED <<handlerVars, storeVars, transcribeVars>>

\* lines 288-302: the insert and the response with the new row
InsertDoctor(r, ok) ==
    /\ d_pc[r] = "checked"
    /\ d_pc' = [d_pc EXCEPT ![r] = "done"]
    /\ IF ok
       THEN /\ doctors' = Append(doctors, DoctorRow(NewId(doctors), d_request[r][1]))
            /\ d_response' = [d_response EXCEPT ![r] =
                                 Some(DoctorResponse(200, "", Some(NewId(doctors))))]
       ELSE /\ d_response' = [d_response EXCEPT ![r] = Some(DoctorResponse(500, "str(e)", None))]
            /\ UNCHANGED doctors
    /\ UNCHANGED <<d_request, d_worker, existing, extractVars, coerceVars>>
    /\ UNCHANGED <<handlerVars, storeVars, transcribeVars>>

\* ------------------------------------------------------- specifications
\* one /api/summarize request, every input and every LLM reply
SummarizeStep(r) ==
    \/ \E req \in SummarizeRequests : Summarize(r, req)
    \/ pc[r] = "drafting" /\ \E reply \in Replies(request[r][1].note_type) : Draft(r, reply)
    \/ \E exc \in {""} \cup StoreExceptions : InsertSoapNote(r, exc)
    \/ \E exc \in {""} \cup StoreExceptions : InsertPrescription(r, exc)
    \/ \E exc \in {""} \cup StoreExceptions : InsertMedication(r, exc)
    \/ pc[r] = "retry" /\ \E reply \in Replies(request[r][1].note_type) : Retry(r, reply)

Next == SummarizeStep(1)

Spec == Init /\ [][Next]_vars

\* NumReqs /api/summarize requests against one store, in any interleaving
ConcurrentNext ==
    \E r \in Reqs :
        \/ \E req \in ConcurrentRequests : Summarize(r, req)
        \/ pc[r] = "drafting"
           /\ \E reply \in ConcurrentReplies(request[r][1].note_type) : Draft(r, reply)
        \/ \E exc \in {""} \cup StoreExceptions : InsertSoapNote(r, exc)
        \/ \E exc \in {""} \cup StoreExceptions : InsertPrescription(r, exc)
        \/ \E exc \in {""} \cup StoreExceptions : InsertMedication(r, exc)
        \/ pc[r] = "retry"
           /\ \E reply \in ConcurrentReplies(request[r][1].note_type) : Retry(r, reply)

ConcurrentSpec == Init /\ [][ConcurrentNext]_vars

\* /api/transcribe, MaxUploads uploads one after the other
TranscribeNext ==
    \/ \E u \in Uploads : TranscribeAudio(u)
    \/ \E ok \in BOOLEAN : WriteTempFile(ok)
    \/ \E ok \in BOOLEAN : GetWhisperModel(ok)
    \/ \E text \in {None} \cup {Some(t) : t \in Transcripts} : Transcribe(text)
    \/ \E ok \in BOOLEAN : SaveConversation(ok)

TranscribeSpec == Init /\ [][TranscribeNext]_vars

\* extract_json_from_response applied to every text of up to MaxTextLen tokens
ExtractNext == ExtractJsonFromResponse

ExtractSpec == ExtractInit /\ [][ExtractNext]_vars

\* NumDoctorReqs POST /api/doctors requests, spread over the server processes
DoctorsNext ==
    \E r \in DoctorReqs :
        \/ \E doctor \in DoctorCreates, w \in Workers, ok \in BOOLEAN : CreateDoctor(r, doctor, w, ok)
        \/ \E ok \in BOOLEAN : InsertDoctor(r, ok)

DoctorsSpec == Init /\ [][DoctorsNext]_vars

\* the coercion step applied once and once more to every draft
CoerceNext == Coerce

CoerceSpec == CoerceInit /\ [][CoerceNext]_vars

\* =================================================================== claims
Done(r) == pc[r] = "done"

Status(r) == response[r][1].status

\* a reply the handler could not turn into a validated note for want of
\* extractable JSON or of a schema-valid object
UnusableOutcomes == {"extraction_error", "schema_error"}

\* C1: a request makes at most two LLM calls, and when both replies fail
\* extraction or schema validation it ends in the generation-failure error
\* after exactly two calls.
C1_AtMostOneRetry ==
    \A r \in Reqs :
        /\ Len(replies[r]) <= 2
        /\ (/\ Len(outcomes[r]) = 2
            /\ outcomes[r][1] \in UnusableOutcomes
            /\ outcomes[r][2] \in UnusableOutcomes)
           => /\ Done(r)
              /\ response[r] = Some(GenerationFailed)
              /\ Len(replies[r]) = 2

C1_Witness ==
    \E r \in Reqs :
        /\ Done(r)
        /\ outcomes[r] = <<"extraction_error", "schema_error">>
        /\ response[r] = Some(GenerationFailed)

\* the object has every field the note type's schema prompt shows, each of the
\* JSON type the prompt shows
PromptConforming(note_type, obj) ==
    IF note_type = "soap"
    THEN /\ \A k \in SoapTextFields : obj[k].t = "str"
         /\ obj["admin_tasks"].t = "list"
    ELSE /\ \A k \in PrescTextFields : obj[k].t = "str"
         /\ \A k \in PrescListFields : obj[k].t = "list"
         /\ obj["vital_signs"].t = "dict"
         /\ obj["medications"].t = "list"
         /\ \A i \in 1..Len(obj["medications"].items) :
                \A k \in MedKeys : obj["medications"].items[i][k].t = "str"

\* C2: for both note types, when the first reply fails extraction and the retry
\* reply is an object with every field the schema prompt asks for, the request
\* ends in a success response carrying the validated note.
C2_RetryYieldsDone ==
    \A r \in Reqs :
        (/\ Done(r)
         /\ Len(replies[r]) = 2
         /\ outcomes[r][1] = "extraction_error"
         /\ replies[r][2].kind = "object"
         /\ PromptConforming(request[r][1].note_type, replies[r][2].obj[1]))
        => /\ Status(r) = 200
           /\ response[r][1].note # None

\* the table a note of this type is stored in
NoteTable(note_type) == IF note_type = "soap" THEN soap_notes ELSE prescriptions

\* C3: every success response, from the first attempt or from the retry, follows
\* the note's insert and carries the id that insert generated.
C3_SuccessIsPersisted ==
    \A r \in Reqs :
        (Done(r) /\ Status(r) = 200)
        => /\ response[r][1].id # None
           /\ \E i \in 1..Len(writes[r]) :
                  /\ writes[r][i].ok
                  /\ writes[r][i].table \in {"soap_notes", "prescriptions"}
                  /\ writes[r][i].id = response[r][1].id
           /\ \E j \in 1..Len(NoteTable(request[r][1].note_type)) :
                  NoteTable(request[r][1].note_type)[j].id = response[r][1].id[1]

\* rows of the store a request has written
RowsWritten(r) == {i \in 1..Len(writes[r]) : writes[r][i].ok}

\* C4: no store write is issued before a note has passed schema validation, and
\* a request that ends in an input-validation error, an LLM transport error or
\* a generation failure has written no row.
C4_NoWriteWithoutValidNote ==
    \A r \in Reqs :
        /\ writes[r] # <<>> => note_data[r] # None
        /\ (/\ Done(r)
            /\ \/ Status(r) = 400
               \/ Status(r) = 504
               \/ response[r][1].detail = "AI service error"
               \/ response[r] = Some(GenerationFailed))
           => RowsWritten(r) = {}

\* the request's persistence ran from its first insert to the response and
\* no write of it failed
PersistedCleanly(r) ==
    /\ Done(r)
    /\ writes[r] # <<>>
    /\ \A i \in 1..Len(writes[r]) : writes[r][i].ok

\* the medications row the store holds under this id
MedicationWithId(id) ==
    CHOOSE row \in {medications[j] : j \in 1..Len(medications)} : row.id = id

\* C5: a prescription with N medications whose writes all succeed issues exactly
\* 1 + N inserts: the prescriptions insert first, then one medications insert per
\* entry in list order, each carrying the id the prescriptions insert returned.
C5_PrescriptionFanOut ==
    \A r \in Reqs :
        (request[r] # None /\ request[r][1].note_type = "prescription")
        => /\ \A i \in 1..Len(writes[r]) :
                  IF i = 1
                  THEN writes[r][i].table = "prescriptions"
                  ELSE /\ writes[r][i].table = "medications"
                       /\ writes[r][1].ok
                       /\ writes[r][i].prescription_id = writes[r][1].id
           /\ PersistedCleanly(r)
              => /\ Len(writes[r]) = 1 + Len(note_data[r][1]["medications"])
                 /\ \A i \in 1..Len(note_data[r][1]["medications"]) :
                        MedicationWithId(writes[r][i + 1].id[1]) =
                            MedicationRow(writes[r][i + 1].id[1], writes[r][1].id[1],
                                          note_data[r][1]["medications"][i])

C5_Witness ==
    \E r \in Reqs :
        /\ request[r] # None
        /\ request[r][1].note_type = "prescription"
        /\ PersistedCleanly(r)
        /\ Len(note_data[r][1]["medications"]) = MaxMeds
        /\ Len(writes[r]) = 1 + MaxMeds

\* C6: in every state of the store, under any interleaving of requests and any
\* failing write, each medications row references a prescriptions row that exists.
C6_MedicationParentExists ==
    \A i \in 1..Len(medications) :
        \E j \in 1..Len(prescriptions) : prescriptions[j].id = medications[i].prescription_id

C6_Witness ==
    /\ \E i, k \in 1..Len(medications) :
           medications[i].prescription_id # medications[k].prescription_id
    /\ \E r \in Reqs : \E i \in 1..Len(writes[r]) : ~writes[r][i].ok

\* a medications insert of the request failed after its prescriptions insert
MedicationInsertFailed(r) ==
    \E i \in 1..Len(writes[r]) : writes[r][i].table = "medications" /\ ~writes[r][i].ok

\* the error responses that say nothing about the request's writes
GenericErrors == {InternalError, GenerationFailed, SchemaMismatch}

\* C7: when a medication insert fails after the prescription insert succeeded,
\* the caller gets an error that identifies the writes that succeeded and the
\* medications that failed, not a generic failure.
C7_PartialFailureReported ==
    \A r \in Reqs :
        (Done(r) /\ MedicationInsertFailed(r))
        => /\ Status(r) >= 400
           /\ response[r][1] \notin GenericErrors

\* C8: when the k-th medication insert fails, the request ends in an error, the
\* prescription row and the first k-1 medication rows stay in the store, and no
\* insert is attempted for the medications after the k-th.
C8_FailedMedicationStopsFanOut ==
    \A r \in Reqs :
        MedicationInsertFailed(r)
        => LET k == Len(writes[r]) - 1
           IN  /\ ~writes[r][Len(writes[r])].ok
               /\ \A i \in 1..k : writes[r][i].ok
               /\ \E j \in 1..Len(prescriptions) : prescriptions[j].id = writes[r][1].id[1]
               /\ \A i \in 2..k :
                      \E j \in 1..Len(medications) : medications[j].id = writes[r][i].id[1]
               /\ Done(r) => Status(r) >= 400

\* C9: a request with an empty or whitespace-only transcript, a note_type other
\* than soap and prescription, or a visit_type other than new, followup and
\* repeat gets status 400 with no LLM call made and the store untouched.
C9_BadInputRejectedFirst ==
    \A r \in Reqs :
        (/\ request[r] # None
         /\ \/ Strip(request[r][1].transcript) = <<>>
            \/ request[r][1].note_type \notin {"soap", "prescription"}
            \/ request[r][1].visit_type \notin {"new", "followup", "repeat"})
        => /\ Done(r)
           /\ Status(r) = 400
           /\ replies[r] = <<>>
           /\ writes[r] = <<>>
           /\ soap_notes = <<>> /\ prescriptions = <<>> /\ medications = <<>>

C9_Witness ==
    \E r \in Reqs :
        /\ Done(r)
        /\ request[r][1].transcript = <<" ">>
        /\ request[r][1].note_type = "soap"
        /\ request[r][1].visit_type = "new"
        /\ Status(r) = 400

\* C10: an upload over 25 MB gets 413 and an upload of a type outside the allowed
\* list gets 400, both before any temp file, Whisper load or run, or conversation
\* row; an upload of exactly 25 MB with an allowed type passes both checks.
C10_UploadChecksFirst ==
    upload # None
    => LET u == upload[1]
       IN  /\ u.size > 25 * 1024 * 1024
              => /\ t_pc = "done"
                 /\ t_response[1].status = 413
                 /\ t_steps = <<>>
           /\ (u.size <= 25 * 1024 * 1024 /\ u.content_type \notin allowed_types)
              => /\ t_pc = "done"
                 /\ t_response[1].status = 400
                 /\ t_steps = <<>>
           /\ (u.size = 25 * 1024 * 1024 /\ u.content_type \in allowed_types)
              => \/ t_response = None
                 \/ /\ t_response[1].status # 413
                    /\ t_response[1].detail # "Unsupported audio format"

C10_Witness ==
    /\ uploads = 2
    /\ upload # None
    /\ upload[1].size = 25 * 1024 * 1024 + 1
    /\ t_pc = "done"
    /\ t_response[1].status = 413
    /\ whisper_model = "loaded"
    /\ Len(conversations) = 1

\* C11: a transport failure of an LLM call, first or retry, ends the request at
\* once with no further LLM call: 504 for a timeout, 500 for any other
\* failure, with call_ollama's own detail.
C11_TransportErrorSurfaced ==
    \A r \in Reqs :
        \A i \in 1..Len(replies[r]) :
            replies[r][i].kind \in {"timeout", "http_error"}
            => /\ Done(r)
               /\ Len(replies[r]) = i
               /\ Status(r) = IF replies[r][i].kind = "timeout" THEN 504 ELSE 500
               /\ response[r][1].detail =
                      IF replies[r][i].kind = "timeout"
                      THEN "AI service timed out. Please try again."
                      ELSE "AI service error"

C11_Witness ==
    \E r \in Reqs :
        /\ Len(replies[r]) = 2
        /\ replies[r][2].kind = "timeout"
        /\ Status(r) = 504

\* C12: a first reply that is a JSON object but fails schema validation leads to
\* the retry LLM call, not to an immediate error.
C12_SchemaFailureRetries ==
    \A r \in Reqs :
        (Len(outcomes[r]) >= 1 /\ outcomes[r][1] = "schema_error")
        => /\ replies[r][1].kind = "object"
           /\ \/ pc[r] = "retry" /\ response[r] = None
              \/ Len(replies[r]) = 2

C12_Witness ==
    \E r \in Reqs :
        /\ Len(outcomes[r]) >= 1
        /\ outcomes[r][1] = "schema_error"
        /\ Len(replies[r]) = 2
        /\ Done(r)

\* C13: a request fails for unusable model output only after the retry call: for
\* every first reply that yields no schema-valid JSON object, JSON that is no
\* object included, one retry call is made before any failure is reported.
C13_FailureOnlyAfterRetry ==
    \A r \in Reqs :
        (/\ Done(r)
         /\ Len(outcomes[r]) >= 1
         /\ outcomes[r][1] \in UnusableOutcomes \cup {"type_error"})
        => Len(replies[r]) = 2

\* rows of a table that a request wrote
OwnRows(r, table, name) ==
    {table[j] : j \in {j \in 1..Len(table) :
        \E i \in 1..Len(writes[r]) :
            writes[r][i].ok /\ writes[r][i].table = name /\ writes[r][i].id = Some(table[j].id)}}

\* C16: the caller's identifiers never come from the model: a prescription note
\* returned by the first attempt or the retry has the request's patient_name and
\* patient_id, and every soap_notes or prescriptions row has the request's
\* patient_id, doctor_id and conversation_id.
C16_IdentifiersFromCaller ==
    \A r \in Reqs :
        /\ (Done(r) /\ Status(r) = 200 /\ request[r][1].note_type = "prescription")
           => /\ response[r][1].note[1]["patient_name"] = request[r][1].patient_name
              /\ response[r][1].note[1]["patient_id"] = request[r][1].patient_id
        /\ \A row \in OwnRows(r, soap_notes, "soap_notes")
                      \cup OwnRows(r, prescriptions, "prescriptions") :
               /\ row.patient_id = request[r][1].patient_id
               /\ row.doctor_id = request[r][1].doctor_id
               /\ row.conversation_id = request[r][1].conversation_id

\* a store write of the request failed
WriteFailed(r) == \E i \in 1..Len(writes[r]) : ~writes[r][i].ok

\* C19: a failed store write is never followed by another LLM call of the same
\* request and never ends in a success response.
C19_StoreFailureNeverRetries ==
    \A r \in Reqs :
        WriteFailed(r)
        => /\ Len(replies[r]) = 1
           /\ pc[r] # "retry"
           /\ Done(r) => Status(r) # 200

\* the steps the current /api/transcribe request has taken
TSteps == {t_steps[i] : i \in 1..Len(t_steps)}

\* C18: a failed conversation insert does not fail /api/transcribe: a non-empty
\* transcript is answered with status 200 and the transcript, with
\* conversation_id null when the insert failed or patient_id or doctor_id was
\* not supplied and the stored row's id otherwise; an empty transcript is
\* answered with 400 (a Whisper exception with 500) and no insert is attempted
\* for it.
C18_ConversationSaveBestEffort ==
    (t_pc = "done" /\ "transcribe" \in TSteps)
    => LET resp == t_response[1]
           u == upload[1]
           wanted == Truthy(u.patient_id) /\ Truthy(u.doctor_id)
           failed == "insert_conversation_failed" \in TSteps
       IN  IF transcript_text # <<>>
           THEN /\ resp.status = 200
                /\ resp.transcript = transcript_text
                /\ ("insert_conversation" \in TSteps) = wanted
                /\ IF wanted /\ ~failed
                   THEN /\ conversations # <<>>
                        /\ resp.conversation_id = Some(conversations[Len(conversations)].id)
                        /\ conversations[Len(conversations)] =
                               ConversationRow(Len(conversations), u, transcript_text)
                   ELSE resp.conversation_id = None
           ELSE /\ resp.status \in {400, 500}
                /\ resp.status = 400 => resp.detail = "No speech detected in audio file."
                /\ resp.transcript = <<>>
                /\ "insert_conversation" \notin TSteps

C18_Witness ==
    /\ t_pc = "done"
    /\ transcript_text # <<>>
    /\ "insert_conversation_failed" \in TSteps
    /\ t_response[1].status = 200
    /\ t_response[1].conversation_id = None

\* C14: extract_json_from_response returns a JSON object or raises the
\* extraction error (ValueError): it never returns a value that is no object.
C14_ExtractReturnsObjectOrFails ==
    extracted # None
    => \/ extracted[1] = ExtractionError
       \/ /\ extracted[1].exc = ""
          /\ extracted[1].value[1].t = "dict"

\* the spans of a text that are a well-formed JSON object
ObjectSpans(text) ==
    {span \in (1..Len(text)) \X (1..Len(text)) :
        /\ span[1] < span[2]
        /\ text[span[1]] = "{"
        /\ JsonLoads(SubSeq(text, span[1], span[2])) # None}

\* those that are not nested in another one
OutermostObjects(text) ==
    {span \in ObjectSpans(text) :
        \A other \in ObjectSpans(text) :
            (other[1] <= span[1] /\ span[2] <= other[2]) => other = span}

\* C15: for a text that contains a single well-formed JSON object (whole text,
\* fenced, or inside prose that may hold braces or an earlier fence),
\* extract_json_from_response returns exactly that object.
C15_SingleObjectIsExtracted ==
    (extracted # None /\ Cardinality(OutermostObjects(raw_text)) = 1)
    => LET span == CHOOSE sp \in OutermostObjects(raw_text) : TRUE
       IN  extracted[1] = Returned(JsonLoads(SubSeq(raw_text, span[1], span[2]))[1])

\* C17: the SOAP coercion step is idempotent and keeps scalars: a second
\* application changes nothing, an object or array under subjective,
\* objective, assessment or plan becomes the string that renders it, every
\* other value stays as it is, and only a missing identifier is backfilled.
C17_CoerceIdempotent ==
    coerced # <<>>
    => LET once == coerced[1]
           req == draft_request[1]
       IN  /\ \A k \in SoapCoercedFields :
                  once[k] = IF draft[k].t \in {"dict", "list"}
                            THEN [t |-> "str", v |-> draft[k].v]
                            ELSE draft[k]
           /\ \A k \in {"patient_id", "doctor_id", "visit_type"} :
                  once[k] = IF draft[k].t = "absent"
                            THEN [t |-> "str", v |-> req[k]]
                            ELSE draft[k]
           /\ \A k \in SoapKeys \ (SoapCoercedFields \cup {"patient_id", "doctor_id", "visit_type"}) :
                  once[k] = draft[k]
           /\ Len(coerced) = 2 => coerced[2] = once

C17_Witness ==
    /\ Len(coerced) = 2
    /\ draft["objective"].t = "dict"
    /\ draft["plan"].t = "list"
    /\ draft["subjective"].t = "str"
    /\ draft["assessment"].t = "null"
    /\ draft["patient_id"].t = "absent"
    /\ coerced[2]["objective"] = Str("{'bp': '120/80'}")
    /\ coerced[2]["subjective"] = Str("text")

\* the requests that inserted a row
Inserted == {r \in DoctorReqs : d_response[r] # None /\ d_response[r][1].status = 200}

\* C20, as claimed: the doctors table holds at most one row per email,
\* whatever the interleaving of the requests.
C20_OneRowPerEmail ==
    \A i, j \in 1..Len(doctors) : doctors[i].email = doctors[j].email => i = j

\* C20, amended: the requests served by one process leave at most one row per
\* email, since that process runs the check and the insert of a request
\* without serving another one in between; two rows of one email come from
\* requests served by different processes. A request whose check finds a row
\* of its email returns 400 and inserts nothing.
C20_OneRowPerEmailPerProcess ==
    /\ \A r1, r2 \in Inserted :
           (r1 # r2 /\ d_request[r1][1].email = d_request[r2][1].email)
           => d_worker[r1] # d_worker[r2]
    /\ \A r \in DoctorReqs :
           (existing[r] # None /\ existing[r][1] # {})
           => /\ d_pc[r] = "done"
              /\ d_response[r][1].status = 400
              /\ d_response[r][1].id = None
    /\ \A r \in Inserted :
           /\ existing[r] = Some({})
           /\ d_response[r][1].id # None
           /\ d_response[r][1].id[1] \in 1..Len(doctors)
           /\ doctors[d_response[r][1].id[1]] = DoctorRow(d_response[r][1].id[1], d_request[r][1])
    /\ Len(doctors) = Cardinality(Inserted)

C20_Witness ==
    \E r1, r2, r3 \in DoctorReqs :
        /\ {r1, r2} \subseteq Inserted
        /\ r1 # r2
        /\ d_request[r1][1].email = d_request[r2][1].email
        /\ d_worker[r1] # d_worker[r2]
        /\ d_worker[r3] = d_worker[r1]
        /\ d_request[r3][1].email = d_request[r1][1].email
        /\ d_response[r3][1].status = 400

====
